---- MODULE Spec2Model ----
(***************************************************************************)
(* Model of the lawnmower catalog backend (src/server.mjs, latest          *)
(* revision at lines 242-509): the Log Batch Writer                        *)
(* POST /api/submit-debug-log and the Catalog Query Builder                *)
(* GET /api/products.                                                      *)
(*                                                                         *)
(* Strings that the code inspects character by character (keywords, text   *)
(* columns, numeric parameters) are sequences of one-character strings.    *)
(***************************************************************************)
EXTENDS Integers, Sequences, FiniteSets, TLC

VARIABLES
    conn,        \* logDbPool: the pooled PostgreSQL clients
    debug_logs,  \* committed rows of table debug_logs
    req,         \* the POST /api/submit-debug-log requests, in arrival order
    Lawnmowers,  \* rows of table Lawnmowers (lawnmowers.db), in storage order
    query,       \* req.query of the GET /api/products request
    gpc,         \* where the GET /api/products handler stands
    stmt,        \* the statement handed to db.get / db.all
    res,         \* the response of the GET /api/products request
    reads,       \* statements executed against the catalog store
    revs         \* the same request as served by the other handler revisions

logVars == <<conn, debug_logs, req>>

getVars == <<Lawnmowers, query, gpc, stmt, res, reads, revs>>

vars == <<conn, debug_logs, req, Lawnmowers, query, gpc, stmt, res, reads, revs>>

----------------------------------------------------------------------------
(* Bounds *)

MaxReqs == 2             \* requests submitted in one behaviour

Reqs == 1..MaxReqs
Conns == {1, 2}          \* the clients logDbPool hands out
LogsLengths == {0, 1, 2} \* lengths of a submitted logs array

----------------------------------------------------------------------------
(* Text.  A string is a sequence of one-character strings.                 *)

UpperLetters == <<"A", "B", "C", "D", "E", "F", "G", "H", "I", "J", "K", "L", "M",
                  "N", "O", "P", "Q", "R", "S", "T", "U", "V", "W", "X", "Y", "Z">>
LowerLetters == <<"a", "b", "c", "d", "e", "f", "g", "h", "i", "j", "k", "l", "m",
                  "n", "o", "p", "q", "r", "s", "t", "u", "v", "w", "x", "y", "z">>
Digits == <<"0", "1", "2", "3", "4", "5", "6", "7", "8", "9">>

\* String.prototype.toLowerCase / SQL lower(), on one character.
LowerChar(ch) ==
    IF \E k \in DOMAIN UpperLetters : UpperLetters[k] = ch
    THEN LowerLetters[CHOOSE k \in DOMAIN UpperLetters : UpperLetters[k] = ch]
    ELSE ch

ToLowerCase(s) == [k \in DOMAIN s |-> LowerChar(s[k])]

\* \s of the regular expression /\s+/, within the alphabet of the inputs.
IsSpace(ch) == ch = " "

\* SQL REPLACE(x, ' ', '')
RECURSIVE StripSpaces(_)
StripSpaces(s) ==
    IF s = <<>> THEN <<>>
    ELSE IF Head(s) = " " THEN StripSpaces(Tail(s))
    ELSE <<Head(s)>> \o StripSpaces(Tail(s))

\* keywords.split(/\s+/).filter(token => token.length > 0): the maximal runs of
\* non-space characters, in order.
RECURSIVE SplitTokens(_, _)
SplitTokens(s, cur) ==
    IF s = <<>> THEN (IF cur = <<>> THEN <<>> ELSE <<cur>>)
    ELSE IF IsSpace(Head(s))
    THEN (IF cur = <<>> THEN <<>> ELSE <<cur>>) \o SplitTokens(Tail(s), <<>>)
    ELSE SplitTokens(Tail(s), Append(cur, Head(s)))

Tokens(keywords) == SplitTokens(ToLowerCase(keywords), <<>>)

\* SQLite's LIKE: % matches any run of characters, _ any one character, and
\* letters match without regard to case.
RECURSIVE Like(_, _)
Like(str, pat) ==
    IF pat = <<>> THEN str = <<>>
    ELSE IF Head(pat) = "%"
    THEN Like(str, Tail(pat)) \/ (str # <<>> /\ Like(Tail(str), pat))
    ELSE /\ str # <<>>
         /\ Head(pat) = "_" \/ LowerChar(Head(pat)) = LowerChar(Head(str))
         /\ Like(Tail(str), Tail(pat))

\* `%${token}%`
Wrap(token) == <<"%">> \o token \o <<"%">>

\* The value of a decimal digit.
DigitValue(ch) == (CHOOSE k \in DOMAIN Digits : Digits[k] = ch) - 1

IsDigit(ch) == \E k \in DOMAIN Digits : Digits[k] = ch

RECURSIVE DigitsPrefix(_)
DigitsPrefix(s) ==
    IF s = <<>> \/ ~IsDigit(Head(s)) THEN <<>>
    ELSE <<Head(s)>> \o DigitsPrefix(Tail(s))

RECURSIVE DigitsValue(_, _)
DigitsValue(s, acc) ==
    IF s = <<>> THEN acc ELSE DigitsValue(Tail(s), 10 * acc + DigitValue(Head(s)))

RECURSIVE SkipSpaces(_)
SkipSpaces(s) == IF s # <<>> /\ IsSpace(Head(s)) THEN SkipSpaces(Tail(s)) ELSE s

NaN == [nan |-> TRUE, val |-> 0]

\* parseFloat on text without ".", "e", "E" or "Infinity": leading white space
\* is skipped, an optional sign and the longest run of digits are read, what
\* follows is ignored; no digit gives NaN.
ParseFloat(s) ==
    LET t == SkipSpaces(s)
        neg == t # <<>> /\ Head(t) = "-"
        u == IF t # <<>> /\ Head(t) \in {"-", "+"} THEN Tail(t) ELSE t
        d == DigitsPrefix(u)
    IN IF d = <<>> THEN NaN
       ELSE [nan |-> FALSE, val |-> IF neg THEN 0 - DigitsValue(d, 0) ELSE DigitsValue(d, 0)]

IsNaN(x) == x.nan

\* JavaScript truthiness of a query-string value: absent and "" are falsy.
Truthy(s) == s # <<>>

----------------------------------------------------------------------------
(* The catalog store and the statement GET /api/products builds.           *)
(* A statement is the sequence of conditions appended to "WHERE 1=1", the  *)
(* list of bound values, and the ORDER BY column and direction.  A         *)
(* condition is a tree: AND / OR nodes over comparisons, each comparison   *)
(* with one ? placeholder except the rear-roller literal comparison.       *)

sTrue == <<"t", "r", "u", "e">>
sFalse == <<"f", "a", "l", "s", "e">>
sPrice == <<"p", "r", "i", "c", "e">>
sName == <<"n", "a", "m", "e">>
sDesc == <<"d", "e", "s", "c">>

Text(s) == [t |-> "text", s |-> s, n |-> 0]
Num(n) == [t |-> "num", s |-> <<>>, n |-> n]

Leaf(op, col, strip, lit) ==
    [op |-> op, col |-> col, strip |-> strip, lit |-> lit, kids |-> <<>>]
Group(op, kids) ==
    [op |-> op, col |-> "", strip |-> FALSE, lit |-> <<>>, kids |-> kids]

\* Number of ? placeholders of a condition, and of a list of conditions.
RECURSIVE Holes(_)
RECURSIVE HolesOf(_)
Holes(node) ==
    IF node.op \in {"AND", "OR"} THEN HolesOf(node.kids)
    ELSE IF node.op \in {"ROLLER", "FLAG"} THEN 0 ELSE 1
HolesOf(nodes) ==
    IF nodes = <<>> THEN 0 ELSE Holes(Head(nodes)) + HolesOf(Tail(nodes))

\* The value of one comparison on a row, v the value bound to its placeholder.
Compare(node, row, v) ==
    CASE node.op = "LIKE" ->
            v.t = "text" /\ Like(ToLowerCase(IF node.strip
                                             THEN StripSpaces(row[node.col])
                                             ELSE row[node.col]), v.s)
      [] node.op = "EQCI" ->
            v.t = "text" /\ ToLowerCase(row[node.col]) = ToLowerCase(v.s)
      [] node.op = "IDEQ" -> v.t = "text" /\ row.id = v.s
      [] node.op = "NUMEQ" -> v.t = "num" /\ row[node.col] = v.n
      [] node.op = "GE" -> v.t = "num" /\ row[node.col] >= v.n
      [] node.op = "LE" -> v.t = "num" /\ row[node.col] <= v.n
      [] node.op = "ROLLER" -> ToLowerCase(row.has_rear_roller) = node.lit
      [] node.op = "FLAG" -> row[node.col] = node.lit[1]
      [] OTHER -> FALSE

\* The value of a condition on a row; its first placeholder is the k-th of the
\* statement, and placeholders bind to params in textual order.
RECURSIVE Eval(_, _, _, _)
RECURSIVE EvalAll(_, _, _, _)
RECURSIVE EvalAny(_, _, _, _)
Eval(node, row, params, k) ==
    CASE node.op = "AND" -> EvalAll(node.kids, row, params, k)
      [] node.op = "OR" -> EvalAny(node.kids, row, params, k)
      [] node.op \in {"ROLLER", "FLAG"} -> Compare(node, row, Text(<<>>))
      [] OTHER -> Compare(node, row, params[k])
EvalAll(nodes, row, params, k) ==
    nodes = <<>> \/ ( /\ Eval(Head(nodes), row, params, k)
                     /\ EvalAll(Tail(nodes), row, params, k + Holes(Head(nodes))) )
EvalAny(nodes, row, params, k) ==
    nodes # <<>> /\ ( \/ Eval(Head(nodes), row, params, k)
                      \/ EvalAny(Tail(nodes), row, params, k + Holes(Head(nodes))) )

\* The rows of the table a statement selects, in storage order.
Select(st, table) ==
    SelectSeq(table, LAMBDA row : EvalAll(st.sql, row, st.params, 1))

\* Order of characters under SQLite's BINARY collation (ASCII).
CharOrder == <<" ", "%", "+", "-">> \o Digits \o UpperLetters \o <<"_">> \o LowerLetters
CharCode(ch) == CHOOSE k \in DOMAIN CharOrder : CharOrder[k] = ch

RECURSIVE StrLeq(_, _)
StrLeq(a, b) ==
    IF a = <<>> THEN TRUE
    ELSE IF b = <<>> THEN FALSE
    ELSE IF Head(a) = Head(b) THEN StrLeq(Tail(a), Tail(b))
    ELSE CharCode(Head(a)) < CharCode(Head(b))

\* a may come before b under ORDER BY col dir.
InOrder(a, b, col, dir) ==
    LET leq(x, y) == IF col = "price" THEN x.price <= y.price
                     ELSE StrLeq(x.name, y.name)
    IN IF dir = "DESC" THEN leq(b, a) ELSE leq(a, b)

\* The results db.all may deliver for a statement: without ORDER BY the rows
\* in storage order, with ORDER BY every arrangement of them that is sorted.
Results(st, table) ==
    LET rows == Select(st, table)
        n == Len(rows)
    IN IF st.orderBy = "" THEN {rows}
       ELSE {[k \in 1..n |-> rows[f[k]]] :
               f \in {g \in [1..n -> 1..n] :
                        /\ \A i, j \in 1..n : i # j => g[i] # g[j]
                        /\ \A i \in 1..(n - 1) :
                              InOrder(rows[g[i]], rows[g[i + 1]], st.orderBy, st.dir)}}

----------------------------------------------------------------------------
(* Building the statement: GET /api/products, latest revision.             *)

\* let query = `SELECT ... FROM Lawnmowers WHERE 1=1`; const params = [];
\* status 0: the handler has not returned.
BaseStmt ==
    [sql |-> <<>>, params |-> <<>>, orderBy |-> "", dir |-> "", status |-> 0,
     error |-> ""]

Reject(b, msg) == [b EXCEPT !.status = 400, !.error = msg]

AddCond(b, node, values) ==
    [b EXCEPT !.sql = Append(@, node), !.params = @ \o values]

SearchFields ==
    <<[name |-> "name", normalizeSpaces |-> TRUE],
      [name |-> "description", normalizeSpaces |-> TRUE],
      [name |-> "ideal_for", normalizeSpaces |-> FALSE],
      [name |-> "best_feature", normalizeSpaces |-> FALSE]>>

\* One keyword token: an OR over the four fields, one bound pattern per field.
TokenCondition(token) ==
    Group("OR", [f \in DOMAIN SearchFields |->
                    Leaf("LIKE", SearchFields[f].name,
                         SearchFields[f].normalizeSpaces, <<>>)])

RECURSIVE TokenParamsOnce(_)
TokenParamsOnce(tokens) ==
    IF tokens = <<>> THEN <<>>
    ELSE <<Text(Wrap(Head(tokens)))>> \o TokenParamsOnce(Tail(tokens))

RECURSIVE TokenParams(_)
TokenParams(tokens) ==
    IF tokens = <<>> THEN <<>>
    ELSE [f \in DOMAIN SearchFields |-> Text(Wrap(Head(tokens)))]
         \o TokenParams(Tail(tokens))

\* if (keywords) { ... query += ` AND (${tokenConditions.join(' AND ')})` }
AddKeywords(b, keywords) ==
    LET tokens == Tokens(keywords)
    IN IF b.status # 0 \/ ~Truthy(keywords) \/ Len(tokens) = 0 THEN b
       ELSE AddCond(b, Group("AND", [k \in DOMAIN tokens |-> TokenCondition(tokens[k])]),
                    TokenParams(tokens))

\* if (x) { query += ' AND lower(col) = lower(?)'; params.push(x); }
AddEqualsIgnoreCase(b, col, v) ==
    IF b.status # 0 \/ ~Truthy(v) THEN b
    ELSE AddCond(b, Leaf("EQCI", col, FALSE, <<>>), <<Text(v)>>)

\* cuttingWidthCm, minPrice, maxPrice: a numeric comparison, or 400.
AddNumber(b, op, col, v, msg) ==
    IF b.status # 0 THEN b
    ELSE IF Truthy(v) /\ ~IsNaN(ParseFloat(v))
    THEN AddCond(b, Leaf(op, col, FALSE, <<>>), <<Num(ParseFloat(v).val)>>)
    ELSE IF Truthy(v) /\ IsNaN(ParseFloat(v)) THEN Reject(b, msg)
    ELSE b

\* hasRearRoller: the literals 'true' and 'false', or 400.
AddRearRoller(b, v) ==
    IF b.status # 0 THEN b
    ELSE IF v = sTrue THEN AddCond(b, Leaf("ROLLER", "has_rear_roller", FALSE, sTrue), <<>>)
    ELSE IF v = sFalse THEN AddCond(b, Leaf("ROLLER", "has_rear_roller", FALSE, sFalse), <<>>)
    ELSE IF Truthy(v)
    THEN Reject(b, "Invalid value for hasRearRoller. Must be \"true\" or \"false\".")
    ELSE b

AddSortingExactKey(b, sortBy, order) ==
    IF b.status # 0 \/ ~Truthy(sortBy) THEN b
    ELSE IF sortBy \notin {sPrice, sName}
    THEN Reject(b, "Invalid sortBy parameter")
    ELSE [b EXCEPT !.orderBy = IF sortBy = sPrice THEN "price" ELSE "name",
                   !.dir = IF Truthy(order) /\ ToLowerCase(order) = sDesc
                           THEN "DESC" ELSE "ASC"]

AddSortingExactOrder(b, sortBy, order) ==
    IF b.status # 0 \/ ~Truthy(sortBy) THEN b
    ELSE IF ToLowerCase(sortBy) \notin {sPrice, sName}
    THEN Reject(b, "Invalid sortBy parameter")
    ELSE [b EXCEPT !.orderBy = IF ToLowerCase(sortBy) = sPrice THEN "price" ELSE "name",
                   !.dir = IF order = sDesc THEN "DESC" ELSE "ASC"]

\* if (sortBy) { switch (sortBy.toLowerCase()) ... ORDER BY ... }
AddSorting(b, sortBy, order) ==
    IF b.status # 0 \/ ~Truthy(sortBy) THEN b
    ELSE IF ToLowerCase(sortBy) \notin {sPrice, sName}
    THEN Reject(b, "Invalid sortBy parameter")
    ELSE [b EXCEPT !.orderBy = IF ToLowerCase(sortBy) = sPrice THEN "price" ELSE "name",
                   !.dir = IF Truthy(order) /\ ToLowerCase(order) = sDesc
                           THEN "DESC" ELSE "ASC"]

\* The list path of the handler, from the keyword search to the sorting.
BuildList(q) ==
    LET b1 == AddKeywords(BaseStmt, q.keywords)
        b2 == AddEqualsIgnoreCase(b1, "category", q.category)
        b3 == AddEqualsIgnoreCase(b2, "brand", q.brand)
        b4 == AddEqualsIgnoreCase(b3, "power_source", q.powerSource)
        b5 == AddEqualsIgnoreCase(b4, "drive_type", q.driveType)
        b6 == AddNumber(b5, "NUMEQ", "cutting_width_cm", q.cuttingWidthCm,
                        "Invalid value for cuttingWidthCm. Must be a number.")
        b7 == AddRearRoller(b6, q.hasRearRoller)
        b8 == AddNumber(b7, "GE", "price", q.minPrice,
                        "Invalid value for minPrice. Must be a number.")
        b9 == AddNumber(b8, "LE", "price", q.maxPrice,
                        "Invalid value for maxPrice. Must be a number.")
    IN AddSorting(b9, q.sortBy, q.order)

\* if (productId) { query += ' AND id = ?'; params.push(productId); ... }
BuildLookup(q) ==
    AddCond(BaseStmt, Leaf("IDEQ", "id", FALSE, <<>>), <<Text(q.productId)>>)

----------------------------------------------------------------------------
(* Building the statement: the other revisions of GET /api/products.       *)

\* const fieldsToSearch = ['name', 'description', 'ideal_for', 'best_feature']
GroupedFields == <<"name", "description", "ideal_for", "best_feature">>

\* Earlier revision of src/server.mjs: per field, an AND of one LIKE per token;
\* the fields joined by OR; the tokens pushed once per field.
RECURSIVE GroupedParams(_, _)
GroupedParams(fields, tokens) ==
    IF fields = <<>> THEN <<>>
    ELSE [k \in DOMAIN tokens |-> Text(Wrap(tokens[k]))]
         \o GroupedParams(Tail(fields), tokens)

AddKeywordsGrouped(b, keywords) ==
    LET tokens == Tokens(keywords)
    IN IF b.status # 0 \/ ~Truthy(keywords) \/ Len(tokens) = 0 THEN b
       ELSE AddCond(b,
                Group("OR", [f \in DOMAIN GroupedFields |->
                    Group("AND", [k \in DOMAIN tokens |->
                        Leaf("LIKE", GroupedFields[f], FALSE, <<>>)])]),
                GroupedParams(GroupedFields, tokens))

BuildListGrouped(q) ==
    LET b1 == AddKeywordsGrouped(BaseStmt, q.keywords)
        b2 == AddEqualsIgnoreCase(b1, "category", q.category)
        b3 == AddEqualsIgnoreCase(b2, "brand", q.brand)
        b4 == AddEqualsIgnoreCase(b3, "power_source", q.powerSource)
        b5 == AddEqualsIgnoreCase(b4, "drive_type", q.driveType)
        b6 == AddNumber(b5, "NUMEQ", "cutting_width_cm", q.cuttingWidthCm,
                        "Invalid value for cuttingWidthCm. Must be a number.")
        b7 == AddRearRoller(b6, q.hasRearRoller)
        b8 == AddNumber(b7, "GE", "price", q.minPrice,
                        "Invalid value for minPrice. Must be a number.")
        b9 == AddNumber(b8, "LE", "price", q.maxPrice,
                        "Invalid value for maxPrice. Must be a number.")
    IN AddSorting(b9, q.sortBy, q.order)

\* Revision of src/unnamed/part_001: the whole keywords text is one pattern,
\* `%${keywords.toLowerCase()}%`, pushed four times.
PhraseFields == <<"name", "description", "idealFor", "bestFeature">>

AddKeywordsPhrase(b, keywords) ==
    IF b.status # 0 \/ ~Truthy(keywords) THEN b
    ELSE AddCond(b,
             Group("OR", [f \in DOMAIN PhraseFields |->
                             Leaf("LIKE", PhraseFields[f], FALSE, <<>>)]),
             [f \in DOMAIN PhraseFields |-> Text(Wrap(ToLowerCase(keywords)))])

AddIntegerFlagTrueOnly(b, v) ==
    IF b.status # 0 THEN b
    ELSE IF v = sTrue THEN AddCond(b, Leaf("FLAG", "hasRearRoller", FALSE, <<1>>), <<>>)
    ELSE b

\* hasRearRoller = 1 / hasRearRoller = 0 for the literals, or 400.
AddIntegerFlag(b, v) ==
    IF b.status # 0 THEN b
    ELSE IF v = sTrue THEN AddCond(b, Leaf("FLAG", "hasRearRoller", FALSE, <<1>>), <<>>)
    ELSE IF v = sFalse THEN AddCond(b, Leaf("FLAG", "hasRearRoller", FALSE, <<0>>), <<>>)
    ELSE IF Truthy(v)
    THEN Reject(b, "Invalid value for hasRearRoller. Must be \"true\" or \"false\".")
    ELSE b

\* The list path of part_001: no price filters (minPrice and maxPrice are not
\* read from req.query).
BuildListInteger(q) ==
    LET b1 == AddKeywordsPhrase(BaseStmt, q.keywords)
        b2 == AddEqualsIgnoreCase(b1, "category", q.category)
        b3 == AddEqualsIgnoreCase(b2, "brand", q.brand)
        b4 == AddEqualsIgnoreCase(b3, "powerSource", q.powerSource)
        b5 == AddEqualsIgnoreCase(b4, "driveType", q.driveType)
        b6 == AddNumber(b5, "NUMEQ", "cuttingWidthCm", q.cuttingWidthCm,
                        "Invalid value for cuttingWidthCm. Must be a number.")
        b7 == AddIntegerFlag(b6, q.hasRearRoller)
    IN AddSorting(b7, q.sortBy, q.order)

BuildListOf(v, q) ==
    IF v = "grouped" THEN BuildListGrouped(q) ELSE BuildListInteger(q)

----------------------------------------------------------------------------
(* Request bodies of POST /api/submit-debug-log *)

\* JavaScript values as JSON delivers them, and undefined: the type and, for
\* text, numbers and booleans, the value as text; for objects and arrays v
\* is their JSON text.
Undefined == [t |-> "undefined", v |-> ""]
Null == [t |-> "null", v |-> ""]
Str(x) == [t |-> "string", v |-> x]
Number(x) == [t |-> "number", v |-> x]
Boolean(x) == [t |-> "boolean", v |-> x]
Object(x) == [t |-> "object", v |-> x]

\* typeof x
TypeOf(x) == IF x.t \in {"null", "array", "object"} THEN "object" ELSE x.t

\* The truthiness of x in a condition.
IsTruthy(x) ==
    CASE x.t \in {"undefined", "null"} -> FALSE
      [] x.t = "string" -> x.v # ""
      [] x.t = "number" -> x.v # "0"
      [] x.t = "boolean" -> x.v = "true"
      [] OTHER -> TRUE

\* JSON.stringify(x): the JSON text of x, and undefined for undefined.
JSONStringify(x) ==
    CASE x.t = "undefined" -> Undefined
      [] x.t = "null" -> Str("null")
      [] x.t = "string" -> Str("\"" \o x.v \o "\"")
      [] OTHER -> Str(x.v)

\* A log entry: a JSON value, with the values of its message and level
\* properties (undefined where the value has no such property).
StringEntry(x) == [t |-> "string", v |-> x, message |-> Undefined, level |-> Undefined]
NullEntry == [t |-> "null", v |-> "", message |-> Undefined, level |-> Undefined]
NumberEntry(x) == [t |-> "number", v |-> x, message |-> Undefined, level |-> Undefined]
BooleanEntry(x) == [t |-> "boolean", v |-> x, message |-> Undefined, level |-> Undefined]
ArrayEntry == [t |-> "array", v |-> "[]", message |-> Undefined, level |-> Undefined]
ObjectEntry(m, l) == [t |-> "object", v |-> "{}", message |-> m, level |-> l]

\* The entries of the batches whose transactions are explored: a text string
\* and the JSON value null.
Entries == {StringEntry("hello"), NullEntry}

\* req.body.logs: absent, a non-array value (a string), or an array.
LogsValues ==
    {[kind |-> "undefined", items |-> <<>>], [kind |-> "string", items |-> <<>>]}
    \cup {[kind |-> "array", items |-> s] :
            s \in UNION {[1..n -> Entries] : n \in LogsLengths}}

\* `logEntry.message` on null raises a TypeError inside the try block.
Throws(entry) == entry.t = "null"

InvalidLogsNoEmptyCheck(logs) ==
    logs.kind = "undefined" \/ logs.kind # "array"

\* if (!logs || !Array.isArray(logs) || logs.length === 0)
InvalidLogs(logs) ==
    \/ logs.kind = "undefined"
    \/ logs.kind # "array"
    \/ Len(logs.items) = 0

\* const logMessage = typeof logEntry === 'string' ? logEntry : logEntry.message;
LogMessage(entry) == IF TypeOf(entry) = "string" THEN Str(entry.v) ELSE entry.message

\* const logLevel = typeof logEntry === 'object' && logEntry.level ? logEntry.level : null;
LogLevel(entry) ==
    IF TypeOf(entry) = "object" /\ IsTruthy(entry.level) THEN entry.level ELSE Null

\* const finalLogMessage = typeof logMessage === 'string' ? logMessage : JSON.stringify(logMessage);
FinalLogMessage(entry) ==
    IF LogMessage(entry).t = "string" THEN LogMessage(entry)
    ELSE JSONStringify(LogMessage(entry))

\* The values bound by the insertion of entry k of request b: the request's
\* sessionId and userId (one per request), the message and the level; index
\* tells the insertions of one batch apart, as their timestamps do.
Row(b, k) ==
    [session_id |-> b, user_id |-> b, index |-> k,
     log_message |-> FinalLogMessage(req[b].logs.items[k]),
     log_level |-> LogLevel(req[b].logs.items[k])]

\* The rows a batch consists of: one per entry.
RowsOf(b) == {Row(b, k) : k \in 1..Len(req[b].logs.items)}

----------------------------------------------------------------------------
(* The log store as seen through one pooled client.                        *)
(* txn: "none" no transaction open, "open" a transaction block is open,    *)
(* "aborted" a statement of the block failed, "dead" the connection is     *)
(* lost.  pending: rows inserted in the open block, not yet committed.     *)
(* A statement ends "ok", "err" (the server rejects it; an open block       *)
(* becomes aborted) or "lost" (the connection fails; the server aborts the *)
(* session's transaction).  The server never rejects ROLLBACK, so ROLLBACK *)
(* fails only by losing the connection; a lost connection during an        *)
(* earlier statement shows as that statement's "err" followed by a lost    *)
(* ROLLBACK.  A statement that does not end "ok" has no effect on the      *)
(* committed rows.                                                         *)

FreshConn == [txn |-> "none", pending |-> {}, holder |-> 0]

Outcomes(c, verb) ==
    IF c.txn = "dead" THEN {"lost"}
    ELSE IF verb = "ROLLBACK" THEN {"ok", "lost"}
    ELSE IF c.txn = "aborted" /\ verb \in {"BEGIN", "INSERT"} THEN {"err"}
    ELSE IF c.txn = "aborted" /\ verb = "COMMIT" THEN {"ok"}
    ELSE {"ok", "err"}

Lost(c) == [c EXCEPT !.txn = "dead", !.pending = {}]

Rejected(c) == IF c.txn = "open" THEN [c EXCEPT !.txn = "aborted"] ELSE c

\* client.query('BEGIN')
ExecBegin(c, o) ==
    CASE o = "lost" -> Lost(c)
      [] o = "err"  -> Rejected(c)
      [] OTHER      -> IF c.txn = "none" THEN [c EXCEPT !.txn = "open"] ELSE c

\* client.query(insertQuery, [...]): the new state of the client and of the
\* committed rows (outside a transaction block an INSERT commits by itself).
ExecInsert(c, o, row, store) ==
    CASE o = "lost" -> <<Lost(c), store>>
      [] o = "err"  -> <<Rejected(c), store>>
      [] OTHER      -> IF c.txn = "open"
                       THEN <<[c EXCEPT !.pending = @ \cup {row}], store>>
                       ELSE <<c, store \cup {row}>>

\* client.query('COMMIT')
ExecCommit(c, o, store) ==
    CASE o = "lost" -> <<Lost(c), store>>
      [] o = "err"  -> <<[c EXCEPT !.txn = "none", !.pending = {}], store>>
      [] OTHER      -> IF c.txn = "open"
                       THEN <<[c EXCEPT !.txn = "none", !.pending = {}],
                              store \cup c.pending>>
                       ELSE <<[c EXCEPT !.txn = "none", !.pending = {}], store>>

\* client.query('ROLLBACK')
ExecRollback(c, o) ==
    IF o = "lost" THEN Lost(c)
    ELSE [c EXCEPT !.txn = "none", !.pending = {}]

\* client.release(): the client goes back to the pool; the pool drops a
\* client whose connection is lost and opens a new one in its place.
Release(c) ==
    IF c.txn = "dead" THEN FreshConn ELSE [c EXCEPT !.holder = 0]

----------------------------------------------------------------------------
(* Handler activations *)

IdleReq ==
    [pc |-> "idle", logs |-> [kind |-> "undefined", items |-> <<>>],
     client |-> 0, i |-> 0, status |-> 0, body |-> "",
     sent |-> 0, acquired |-> 0, released |-> 0, begins |-> 0, inserts |-> 0,
     commits |-> 0, rollbacks |-> 0, commitOk |-> FALSE, dbFail |-> FALSE]

\* res.status(s).json(b)
Respond(rec, s, b) ==
    [rec EXCEPT !.status = s, !.body = b, !.sent = @ + 1, !.pc = "done", !.i = 0]

\* catch (err) { await client.query('ROLLBACK'); ...   -- the call is issued
Catch(rec) ==
    [rec EXCEPT !.pc = "rollback", !.rollbacks = @ + 1]

\* Ghost: a datastore call of this request was rejected.
Failed(rec) == [rec EXCEPT !.dbFail = TRUE]

\* Top of the for-loop at entry k: leave the loop and issue COMMIT, raise the
\* TypeError of a null entry, or issue the INSERT of entry k.
EnterEntry(rec, k) ==
    IF k > Len(rec.logs.items)
    THEN [rec EXCEPT !.pc = "commit", !.i = k, !.commits = @ + 1]
    ELSE IF Throws(rec.logs.items[k])
    THEN Catch([rec EXCEPT !.i = k])
    ELSE [rec EXCEPT !.pc = "insert", !.i = k, !.inserts = @ + 1]

InitLog ==
    /\ conn = [c \in Conns |-> FreshConn]
    /\ debug_logs = {}
    /\ req = [r \in Reqs |-> IdleReq]

\* The handler is invoked: validation, then logDbPool.connect() is called.
SubmitDebugLog(r) ==
    /\ req[r].pc = "idle"
    /\ r > 1 => req[r - 1].pc # "idle"
    /\ \E logs \in LogsValues :
        LET rec == [IdleReq EXCEPT !.logs = logs]
        IN req' = [req EXCEPT ![r] =
              IF InvalidLogs(logs)
              THEN Respond(rec, 400, "Invalid or empty logs array provided.")
              ELSE [rec EXCEPT !.pc = "connect"]]
    /\ UNCHANGED <<conn, debug_logs, getVars>>

\* Entries of every JSON type: text, null, number, boolean, array, and objects
\* with a text message and a level, without a level, with a message that is
\* not text, without a message, and with the levels 0 and "".
TypedEntries ==
    {StringEntry("hello"), NullEntry, NumberEntry("5"), BooleanEntry("true"),
     ArrayEntry,
     ObjectEntry(Str("oops"), Str("ERROR")),
     ObjectEntry(Str("oops"), Undefined),
     ObjectEntry(Object("{\"code\":7}"), Undefined),
     ObjectEntry(Null, Str("INFO")),
     ObjectEntry(Undefined, Str("WARN")),
     ObjectEntry(Str("zero"), Number("0")),
     ObjectEntry(Str("blank"), Str(""))}

\* Batches of one typed entry, and of the text "hello" followed by one.
TypedLogs ==
    {[kind |-> "array", items |-> <<e>>] : e \in TypedEntries}
    \cup {[kind |-> "array", items |-> <<StringEntry("hello"), e>>] : e \in TypedEntries}
    \cup {[kind |-> "array", items |-> <<>>]}

\* The handler is invoked with a batch of typed entries.
SubmitTypedLog(r) ==
    /\ req[r].pc = "idle"
    /\ r > 1 => req[r - 1].pc # "idle"
    /\ \E logs \in TypedLogs :
        LET rec == [IdleReq EXCEPT !.logs = logs]
        IN req' = [req EXCEPT ![r] =
              IF InvalidLogs(logs)
              THEN Respond(rec, 400, "Invalid or empty logs array provided.")
              ELSE [rec EXCEPT !.pc = "connect"]]
    /\ UNCHANGED <<conn, debug_logs, getVars>>

\* await logDbPool.connect() settles: a client, or a rejection that the outer
\* catch answers.  On success BEGIN is issued.
Connect(r) ==
    /\ req[r].pc = "connect"
    /\ \/ \E c \in Conns :
            /\ conn[c].holder = 0
            /\ conn' = [conn EXCEPT ![c].holder = r]
            /\ req' = [req EXCEPT ![r] =
                  [@ EXCEPT !.pc = "begin", !.client = c, !.acquired = @ + 1,
                            !.begins = @ + 1]]
       \/ /\ req' = [req EXCEPT ![r] =
                  Respond(Failed(@), 500, "Database connection error for logging.")]
          /\ conn' = conn
    /\ UNCHANGED <<debug_logs, getVars>>

\* await client.query('BEGIN') settles.
Begin(r) ==
    /\ req[r].pc = "begin"
    /\ LET c == req[r].client IN
       \E o \in Outcomes(conn[c], "BEGIN") :
          /\ conn' = [conn EXCEPT ![c] = ExecBegin(@, o)]
          /\ req' = [req EXCEPT ![r] =
                IF o = "ok" THEN EnterEntry(@, 1) ELSE Catch(Failed(@))]
    /\ UNCHANGED <<debug_logs, getVars>>

InsertIgnoringFailure(r) ==
    /\ req[r].pc = "insert"
    /\ LET c == req[r].client
           row == Row(r, req[r].i)
       IN \E o \in Outcomes(conn[c], "INSERT") :
            LET eff == ExecInsert(conn[c], o, row, debug_logs)
            IN /\ conn' = [conn EXCEPT ![c] = eff[1]]
               /\ debug_logs' = eff[2]
               /\ req' = [req EXCEPT ![r] =
                     EnterEntry(IF o = "ok" THEN @ ELSE Failed(@), req[r].i + 1)]
    /\ UNCHANGED getVars

\* await client.query(insertQuery, ...) settles for entry i.
Insert(r) ==
    /\ req[r].pc = "insert"
    /\ LET c == req[r].client
           row == Row(r, req[r].i)
       IN \E o \in Outcomes(conn[c], "INSERT") :
            LET eff == ExecInsert(conn[c], o, row, debug_logs)
            IN /\ conn' = [conn EXCEPT ![c] = eff[1]]
               /\ debug_logs' = eff[2]
               /\ req' = [req EXCEPT ![r] =
                     IF o = "ok" THEN EnterEntry(@, req[r].i + 1)
                     ELSE Catch(Failed(@))]
    /\ UNCHANGED getVars

CommitThenRollback(r) ==
    /\ req[r].pc = "commit"
    /\ LET c == req[r].client IN
       \E o \in Outcomes(conn[c], "COMMIT") :
          LET eff == ExecCommit(conn[c], o, debug_logs)
          IN /\ conn' = [conn EXCEPT ![c] = eff[1]]
             /\ debug_logs' = eff[2]
             /\ req' = [req EXCEPT ![r] =
                   Catch(IF o = "ok" THEN [@ EXCEPT !.commitOk = TRUE]
                         ELSE Failed(@))]
    /\ UNCHANGED getVars

\* await client.query('COMMIT') settles: 200 and the finally block's release,
\* or the catch block.
Commit(r) ==
    /\ req[r].pc = "commit"
    /\ LET c == req[r].client IN
       \E o \in Outcomes(conn[c], "COMMIT") :
          LET eff == ExecCommit(conn[c], o, debug_logs)
          IN /\ debug_logs' = eff[2]
             /\ IF o = "ok"
                THEN /\ conn' = [conn EXCEPT ![c] = Release(eff[1])]
                     /\ req' = [req EXCEPT ![r] =
                           Respond([@ EXCEPT !.commitOk = TRUE, !.released = @ + 1],
                                   200, "Logs received and stored successfully.")]
                ELSE /\ conn' = [conn EXCEPT ![c] = eff[1]]
                     /\ req' = [req EXCEPT ![r] = Catch(Failed(@))]
    /\ UNCHANGED getVars

RollbackSkipped(r) ==
    /\ req[r].pc = "rollback"
    /\ LET c == req[r].client IN
          /\ conn' = [conn EXCEPT ![c] = Release(@)]
          /\ req' = [req EXCEPT ![r] =
                Respond([@ EXCEPT !.released = @ + 1],
                        500, "Failed to store logs in database.")]
    /\ UNCHANGED <<debug_logs, getVars>>

RollbackReleaseAfterCatch(r) ==
    /\ req[r].pc = "rollback"
    /\ LET c == req[r].client IN
       \E o \in Outcomes(conn[c], "ROLLBACK") :
          IF o = "ok"
          THEN /\ conn' = [conn EXCEPT ![c] = Release(ExecRollback(@, o))]
               /\ req' = [req EXCEPT ![r] =
                     Respond([@ EXCEPT !.released = @ + 1],
                             500, "Failed to store logs in database.")]
          ELSE /\ conn' = [conn EXCEPT ![c] = ExecRollback(@, o)]
               /\ req' = [req EXCEPT ![r] =
                     Respond(Failed(@), 500,
                             "Database connection error for logging.")]
    /\ UNCHANGED <<debug_logs, getVars>>

\* await client.query('ROLLBACK') settles inside the catch block: 500 and the
\* finally block's release; when ROLLBACK itself rejects, the finally block
\* still releases and the outer catch answers.
Rollback(r) ==
    /\ req[r].pc = "rollback"
    /\ LET c == req[r].client IN
       \E o \in Outcomes(conn[c], "ROLLBACK") :
          /\ conn' = [conn EXCEPT ![c] = Release(ExecRollback(@, o))]
          /\ req' = [req EXCEPT ![r] =
                IF o = "ok"
                THEN Respond([@ EXCEPT !.released = @ + 1], 500,
                             "Failed to store logs in database.")
                ELSE Respond([Failed(@) EXCEPT !.released = @ + 1], 500,
                             "Database connection error for logging.")]
    /\ UNCHANGED <<debug_logs, getVars>>

NextLog ==
    \E r \in Reqs :
        \/ SubmitDebugLog(r)
        \/ Connect(r)
        \/ Begin(r)
        \/ Insert(r)
        \/ Commit(r)
        \/ Rollback(r)

NextTypedLog ==
    \E r \in Reqs :
        \/ SubmitTypedLog(r)
        \/ Connect(r)
        \/ Begin(r)
        \/ Insert(r)
        \/ Commit(r)
        \/ Rollback(r)

----------------------------------------------------------------------------
(* GET /api/products: catalogs and requests                                *)

ParamNames ==
    {"productId", "keywords", "category", "brand", "powerSource", "driveType",
     "cuttingWidthCm", "hasRearRoller", "minPrice", "maxPrice", "sortBy", "order"}

\* req.query with no parameter supplied.
NoQuery == [p \in ParamNames |-> <<>>]

Product(id, name, description, ideal_for, best_feature, category, brand, power_source, drive_type, width, roller, price) ==
    [id |-> id, name |-> name, description |-> description,
     ideal_for |-> ideal_for, best_feature |-> best_feature,
     category |-> category, brand |-> brand, power_source |-> power_source,
     drive_type |-> drive_type, cutting_width_cm |-> width,
     has_rear_roller |-> roller, price |-> price]

\* A catalog of three products that differ in every filtered column.
P1 == Product(<<"1">>, <<"a", " ", "b">>, <<>>, <<"b">>, <<>>,
              <<"R">>, <<"B">>, <<"e">>, <<"s">>, 30, sTrue, 100)
P2 == Product(<<"2">>, <<"A">>, <<"b">>, <<>>, <<>>,
              <<"r">>, <<"c">>, <<"p">>, <<"s">>, 40, sFalse, 50)
P3 == Product(<<"3">>, <<"b">>, <<>>, <<>>, <<"a">>,
              <<"m">>, <<"b">>, <<"e">>, <<"h">>, 30, <<"T", "R", "U", "E">>, 150)

RECURSIVE SubSeqs(_)
SubSeqs(s) ==
    IF s = <<>> THEN {<<>>}
    ELSE LET rest == SubSeqs(Tail(s))
         IN rest \cup {<<Head(s)>> \o t : t \in rest}

Catalogs == SubSeqs(<<P1, P2, P3>>)

\* The non-empty values each parameter is given.
ParamValues(p) ==
    CASE p = "productId" -> {<<"1">>, <<"9">>}
      [] p = "keywords" -> {<<"b">>, <<"%">>}
      [] p = "category" -> {<<"r">>, <<"x">>}
      [] p = "brand" -> {<<"b">>}
      [] p = "powerSource" -> {<<"E">>}
      [] p = "driveType" -> {<<"s">>}
      [] p = "cuttingWidthCm" -> {<<"3", "0">>, <<"x">>, <<"3", "0", "x">>}
      [] p = "hasRearRoller" -> {sTrue, sFalse, <<"y", "e", "s">>}
      [] p = "minPrice" -> {<<"1", "0", "0">>, <<"x">>}
      [] p = "maxPrice" -> {<<"5", "0">>, <<"x">>}
      [] p = "sortBy" -> {sPrice, sName, <<"P", "r", "i", "c", "e">>, <<"x">>}
      [] p = "order" -> {sDesc, <<"D", "E", "S", "C">>, <<"x">>}

MaxSupplied == 3     \* parameters supplied in one request

\* The requests that supply the parameters in S.
QueriesOver(S) ==
    {[p \in ParamNames |-> IF p \in S THEN f[p] ELSE <<>>] :
        f \in {g \in [S -> UNION {ParamValues(p) : p \in S}] :
                 \A p \in S : g[p] \in ParamValues(p)}}

FilterQueries ==
    UNION {QueriesOver(S) : S \in {T \in SUBSET ParamNames : Cardinality(T) <= MaxSupplied}}

MaxKwLen == 3        \* characters of a keywords value

KwAlphabet == {"a", "B", " ", "%", "_"}

KwInputs == UNION {[1..n -> KwAlphabet] : n \in 1..MaxKwLen}

\* Requests that search by keywords alone, or look one product up.
KeywordQueries ==
    {[NoQuery EXCEPT !.keywords = k] : k \in KwInputs}
    \cup {[NoQuery EXCEPT !.keywords = <<"a">>, !.productId = <<"1">>]}

KwTexts == {<<>>, <<"a", "b">>, <<"a", " ", "b">>}

\* Catalogs of one product, its four text columns drawn from KwTexts.
KeywordCatalogs ==
    {<<Product(<<"1">>, n, d, i, f, <<"r">>, <<"b">>, <<"e">>, <<"s">>, 30, sTrue, 100)>> :
        n \in KwTexts, d \in KwTexts, i \in KwTexts, f \in KwTexts}

NoRes == [status |-> 0, rows |-> <<>>, error |-> "", sent |-> 0, dbErr |-> FALSE]

\* The other revisions of the handler: "grouped" is the earlier revision of
\* src/server.mjs (lines 40-197), whose keyword search wants all tokens in one
\* same field; "integer" is the revision of src/unnamed/part_001 (lines
\* 68-199), written for the schema with camelCase columns and the rear-roller
\* flag stored as 1 / 0.
Revisions == {"grouped", "integer"}

\* A revision that is not deployed, and one that has just received the request.
RevIdle == [gpc |-> "off", stmt |-> BaseStmt, res |-> NoRes, reads |-> 0]
RevStart == [RevIdle EXCEPT !.gpc = "start"]

GetIdle ==
    /\ Lawnmowers = <<>>
    /\ query = NoQuery
    /\ gpc = "off"
    /\ stmt = BaseStmt
    /\ res = NoRes
    /\ reads = 0
    /\ revs = [v \in Revisions |-> RevIdle]

InitProducts ==
    /\ \/ Lawnmowers \in Catalogs /\ query \in FilterQueries
       \/ Lawnmowers \in KeywordCatalogs /\ query \in KeywordQueries
    /\ gpc = "start"
    /\ stmt = BaseStmt
    /\ res = NoRes
    /\ reads = 0
    /\ revs = [v \in Revisions |-> RevIdle]
    /\ InitLog

\* res.status(s).json({error}) / res.json(rows)
Reply(s, rows, error, dbErr) ==
    [status |-> s, rows |-> rows, error |-> error, sent |-> res.sent + 1,
     dbErr |-> dbErr]

GetProductsQueryFirst ==
    /\ gpc = "start"
    /\ LET b == IF Truthy(query.productId) THEN BuildLookup(query) ELSE BuildList(query)
       IN /\ reads' = reads + 1
          /\ IF b.status = 400
             THEN gpc' = "done" /\ stmt' = stmt /\ res' = Reply(400, <<>>, b.error, FALSE)
             ELSE /\ gpc' = IF Truthy(query.productId) THEN "get" ELSE "all"
                  /\ stmt' = b /\ res' = res
    /\ UNCHANGED <<Lawnmowers, query, revs, logVars>>

GetProductsNoShortCircuit ==
    /\ gpc = "start"
    /\ LET b == BuildList(query)
           c == IF Truthy(query.productId) THEN BuildLookup(query) ELSE b
       IN IF b.status = 400
          THEN /\ gpc' = "done" /\ stmt' = stmt /\ reads' = reads
               /\ res' = Reply(400, <<>>, b.error, FALSE)
          ELSE /\ gpc' = IF Truthy(query.productId) THEN "get" ELSE "all"
               /\ stmt' = c /\ reads' = reads + 1 /\ res' = res
    /\ UNCHANGED <<Lawnmowers, query, revs, logVars>>

\* The synchronous part of the handler: the identifier lookup hands its
\* statement to db.get and returns; otherwise the statement is built, a
\* malformed parameter returns 400, and the statement is handed to db.all.
GetProducts ==
    /\ gpc = "start"
    /\ IF Truthy(query.productId)
       THEN /\ stmt' = BuildLookup(query)
            /\ gpc' = "get"
            /\ reads' = reads + 1
            /\ res' = res
       ELSE LET b == BuildList(query)
            IN IF b.status = 400
               THEN /\ gpc' = "done" /\ stmt' = stmt /\ reads' = reads
                    /\ res' = Reply(400, <<>>, b.error, FALSE)
               ELSE /\ gpc' = "all" /\ stmt' = b /\ reads' = reads + 1
                    /\ res' = res
    /\ UNCHANGED <<Lawnmowers, query, revs, logVars>>

DbGetFallThrough ==
    /\ gpc = "get"
    /\ gpc' = "done"
    /\ \/ res' = [Reply(404, <<>>, "Product not found", TRUE) EXCEPT !.sent = res.sent + 2]
       \/ LET rows == Select(stmt, Lawnmowers)
          IN res' = IF rows = <<>>
                    THEN Reply(404, <<>>, "Product not found", FALSE)
                    ELSE Reply(200, <<rows[1]>>, "", FALSE)
    /\ UNCHANGED <<Lawnmowers, query, stmt, reads, revs, logVars>>

\* The callback of db.get: 500 on error, 404 without a row, else [row].
DbGet ==
    /\ gpc = "get"
    /\ gpc' = "done"
    /\ \/ res' = Reply(500, <<>>, "Database query failed", TRUE)
       \/ LET rows == Select(stmt, Lawnmowers)
          IN res' = IF rows = <<>>
                    THEN Reply(404, <<>>, "Product not found", FALSE)
                    ELSE Reply(200, <<rows[1]>>, "", FALSE)
    /\ UNCHANGED <<Lawnmowers, query, stmt, reads, revs, logVars>>

\* The callback of db.all: 500 on error, else the rows.
DbAll ==
    /\ gpc = "all"
    /\ gpc' = "done"
    /\ \/ res' = Reply(500, <<>>, "Database query failed", TRUE)
       \/ \E rows \in Results(stmt, Lawnmowers) : res' = Reply(200, rows, "", FALSE)
    /\ UNCHANGED <<Lawnmowers, query, stmt, reads, revs, logVars>>

NextProducts == GetProducts \/ DbGet \/ DbAll

----------------------------------------------------------------------------
(* The other revisions serving the same request.                           *)

\* A row of the catalog in the schema of part_001: camelCase columns, the
\* rear-roller flag an integer.
IntegerProduct(id, name, description, idealFor, bestFeature, category, brand, powerSource, driveType, width, flag, price) ==
    [id |-> id, name |-> name, description |-> description,
     idealFor |-> idealFor, bestFeature |-> bestFeature,
     category |-> category, brand |-> brand, powerSource |-> powerSource,
     driveType |-> driveType, cuttingWidthCm |-> width,
     hasRearRoller |-> flag, price |-> price]

Q1 == IntegerProduct(<<"1">>, <<"a", " ", "b">>, <<>>, <<"b">>, <<>>,
                     <<"R">>, <<"B">>, <<"e">>, <<"s">>, 30, 1, 100)
Q2 == IntegerProduct(<<"2">>, <<"A">>, <<"b">>, <<>>, <<>>,
                     <<"r">>, <<"c">>, <<"p">>, <<"s">>, 40, 0, 50)
Q3 == IntegerProduct(<<"3">>, <<"b">>, <<>>, <<>>, <<"a">>,
                     <<"m">>, <<"b">>, <<"e">>, <<"h">>, 30, 1, 150)

\* Catalogs of one product whose name and ideal_for are drawn from KwTexts.
PairCatalogs ==
    {<<Product(<<"1">>, n, <<>>, i, <<>>, <<"r">>, <<"b">>, <<"e">>, <<"s">>, 30, sTrue, 100)>> :
        n \in KwTexts, i \in KwTexts}

\* Requests that supply every parameter but productId, with two keyword tokens.
FullQueries ==
    {[productId |-> <<>>, keywords |-> <<"a", " ", "b">>, category |-> ca,
      brand |-> br, powerSource |-> po, driveType |-> dr, cuttingWidthCm |-> cu,
      hasRearRoller |-> ha, minPrice |-> mi, maxPrice |-> ma, sortBy |-> so,
      order |-> ot] :
        ca \in ParamValues("category"), br \in ParamValues("brand"),
        po \in ParamValues("powerSource"), dr \in ParamValues("driveType"),
        cu \in ParamValues("cuttingWidthCm"), ha \in ParamValues("hasRearRoller"),
        mi \in ParamValues("minPrice"), ma \in ParamValues("maxPrice"),
        so \in ParamValues("sortBy"), ot \in ParamValues("order")}

InitRevisions ==
    /\ InitLog
    /\ stmt = BaseStmt
    /\ res = NoRes
    /\ reads = 0
    /\ \/ /\ \/ Lawnmowers = <<P1, P2, P3>> /\ query \in FilterQueries \cup FullQueries
             \/ Lawnmowers \in PairCatalogs /\ query \in KeywordQueries
          /\ gpc = "start"
          /\ revs = [v \in Revisions |-> IF v = "grouped" THEN RevStart ELSE RevIdle]
       \/ /\ Lawnmowers = <<Q1, Q2, Q3>> /\ query \in FilterQueries
          /\ gpc = "off"
          /\ revs = [v \in Revisions |-> IF v = "integer" THEN RevStart ELSE RevIdle]

\* res.status(s).json({error}) / res.json(rows) on the response of a revision.
ReplyOf(run, s, rows, error, dbErr) ==
    [run EXCEPT !.gpc = "done",
                !.res = [status |-> s, rows |-> rows, error |-> error,
                         sent |-> @.sent + 1, dbErr |-> dbErr]]

\* The synchronous part of the handler of revision v.
RevGetProducts(v) ==
    /\ revs[v].gpc = "start"
    /\ revs' = [revs EXCEPT ![v] =
          IF Truthy(query.productId)
          THEN [@ EXCEPT !.stmt = BuildLookup(query), !.gpc = "get", !.reads = @ + 1]
          ELSE LET b == BuildListOf(v, query)
               IN IF b.status = 400
                  THEN ReplyOf(@, 400, <<>>, b.error, FALSE)
                  ELSE [@ EXCEPT !.stmt = b, !.gpc = "all", !.reads = @ + 1]]
    /\ UNCHANGED <<Lawnmowers, query, gpc, stmt, res, reads, logVars>>

\* The callback of db.get in revision v.
RevDbGet(v) ==
    /\ revs[v].gpc = "get"
    /\ \/ revs' = [revs EXCEPT ![v] = ReplyOf(@, 500, <<>>, "Database query failed", TRUE)]
       \/ LET rows == Select(revs[v].stmt, Lawnmowers)
          IN revs' = [revs EXCEPT ![v] =
                IF rows = <<>>
                THEN ReplyOf(@, 404, <<>>, "Product not found", FALSE)
                ELSE ReplyOf(@, 200, <<rows[1]>>, "", FALSE)]
    /\ UNCHANGED <<Lawnmowers, query, gpc, stmt, res, reads, logVars>>

\* The callback of db.all in revision v.
RevDbAll(v) ==
    /\ revs[v].gpc = "all"
    /\ \/ revs' = [revs EXCEPT ![v] = ReplyOf(@, 500, <<>>, "Database query failed", TRUE)]
       \/ \E rows \in Results(revs[v].stmt, Lawnmowers) :
            revs' = [revs EXCEPT ![v] = ReplyOf(@, 200, rows, "", FALSE)]
    /\ UNCHANGED <<Lawnmowers, query, gpc, stmt, res, reads, logVars>>

NextRevisions ==
    \/ NextProducts
    \/ \E v \in Revisions : RevGetProducts(v) \/ RevDbGet(v) \/ RevDbAll(v)

----------------------------------------------------------------------------
(* The two endpoints of one deployment.  They share no state (db and       *)
(* logDbPool are separate objects), so a behaviour follows the requests of *)
(* one endpoint: the log batches, or one catalog request; log batches are  *)
(* submitted only where no catalog request is being served.                *)

\* Catalog requests that supply at most one parameter.
SingleQueries ==
    {NoQuery} \cup UNION {{[NoQuery EXCEPT ![p] = v] : v \in ParamValues(p)} : p \in ParamNames}

InitService ==
    /\ InitLog
    /\ stmt = BaseStmt
    /\ res = NoRes
    /\ reads = 0
    /\ revs = [v \in Revisions |-> RevIdle]
    /\ \/ Lawnmowers = <<>> /\ query = NoQuery /\ gpc = "off"
       \/ Lawnmowers = <<P1, P2, P3>> /\ query \in SingleQueries /\ gpc = "start"

NextService ==
    \/ NextProducts
    \/ \E r \in Reqs :
          \/ gpc = "off" /\ SubmitDebugLog(r)
          \/ Connect(r)
          \/ Begin(r)
          \/ Insert(r)
          \/ Commit(r)
          \/ Rollback(r)

----------------------------------------------------------------------------
(* Properties of the Log Batch Writer *)

Answered(r) == req[r].pc = "done"

\* The requests the claims call well-formed: logs is a non-empty array.
NonEmptyArray(logs) == logs.kind = "array" /\ Len(logs.items) >= 1

Accepted(r) == req[r].pc # "idle" /\ NonEmptyArray(req[r].logs)

Stored(r) == RowsOf(r) \cap debug_logs

HasNull(logs) == \E k \in 1..Len(logs.items) : logs.items[k].t = "null"

\* C1: once a request with a non-empty logs array of N entries is answered,
\* the log store holds exactly the N rows of its batch and the answer is 200,
\* or no row of the batch and the answer is 500; the store never holds some
\* but not all rows of a batch, and never a row that is no entry of a batch.
C1_AllOrNothing ==
    /\ \A r \in Reqs :
          /\ Stored(r) \in {{}, RowsOf(r)}
          /\ (Answered(r) /\ Accepted(r)) =>
                \/ req[r].status = 200 /\ Stored(r) = RowsOf(r)
                                       /\ Cardinality(Stored(r)) = Len(req[r].logs.items)
                \/ req[r].status = 500 /\ Stored(r) = {}
    /\ debug_logs \subseteq UNION {RowsOf(r) : r \in Reqs}

\* A batch of two entries failed after its first row was inserted, was
\* answered 500 and left no row.
C1_Witness ==
    \E r \in Reqs :
        /\ Answered(r) /\ req[r].status = 500
        /\ Len(req[r].logs.items) = 2 /\ req[r].inserts = 2 /\ req[r].commits = 0
        /\ Stored(r) = {}

\* C2: a request acquires at most one client and releases it exactly once
\* before the handler ends, on every exit path; a request whose connect
\* failed holds and releases none; a client is checked out only by a request
\* still running on it, so none remains checked out once all have completed.
C2_ReleasedExactlyOnce ==
    /\ \A r \in Reqs :
          /\ req[r].acquired \in {0, 1}
          /\ req[r].released <= req[r].acquired
          /\ Answered(r) => req[r].released = req[r].acquired
          /\ ~Answered(r) => req[r].released = 0
          /\ (req[r].acquired = 1 /\ ~Answered(r)) =>
                conn[req[r].client].holder = r
    /\ \A c \in Conns :
          conn[c].holder # 0 =>
              /\ req[conn[c].holder].pc \in {"begin", "insert", "commit", "rollback"}
              /\ req[conn[c].holder].client = c

\* A request whose ROLLBACK failed has ended with its client released.
C2_Witness ==
    \E r \in Reqs :
        /\ Answered(r) /\ req[r].rollbacks = 1
        /\ req[r].body = "Database connection error for logging."
        /\ req[r].acquired = 1 /\ req[r].released = 1
        /\ conn[req[r].client].holder # r

\* C3 as claimed: a request that issued BEGIN has, when it ends, issued
\* exactly one of COMMIT and ROLLBACK, never both and never neither.
C3_ExactlyOneOfCommitRollback ==
    \A r \in Reqs :
        (Answered(r) /\ req[r].begins >= 1) =>
            req[r].commits + req[r].rollbacks = 1

\* C3 amended: a request that issued BEGIN has, when it ends, issued at most
\* one COMMIT and at most one ROLLBACK and at least one of the two; it issued
\* both exactly when its COMMIT failed, and a COMMIT that succeeded is never
\* followed by a ROLLBACK.  Neither is issued after the client is released.
C3_CommitOrRollback ==
    \A r \in Reqs :
        /\ req[r].commits \in {0, 1} /\ req[r].rollbacks \in {0, 1}
        /\ req[r].commitOk => (req[r].commits = 1 /\ req[r].rollbacks = 0)
        /\ (req[r].commits = 1 /\ req[r].rollbacks = 1) => ~req[r].commitOk
        /\ (Answered(r) /\ req[r].begins >= 1) =>
              /\ req[r].commits + req[r].rollbacks >= 1
              /\ (req[r].commits = 1 /\ ~req[r].commitOk) => req[r].rollbacks = 1
        /\ req[r].begins = 0 => (req[r].commits = 0 /\ req[r].rollbacks = 0)

\* A request whose COMMIT failed has ended after issuing COMMIT and ROLLBACK.
C3_Witness ==
    \E r \in Reqs :
        Answered(r) /\ req[r].commits = 1 /\ req[r].rollbacks = 1 /\ ~req[r].commitOk

\* C4: under every interleaving each batch is stored in full or not at all:
\* a client in the pool carries no open transaction and no uncommitted row,
\* a checked-out client carries only rows of the request holding it, rows of
\* a batch are in the store only if that batch's own COMMIT succeeded, a
\* batch answered 200 keeps all its rows and a batch answered 500 has none,
\* whatever other requests do afterwards on the same or another client.
C4_Isolation ==
    /\ \A c \in Conns :
          /\ conn[c].holder = 0 => (conn[c].txn = "none" /\ conn[c].pending = {})
          /\ conn[c].holder # 0 => conn[c].pending \subseteq RowsOf(conn[c].holder)
    /\ \A r \in Reqs :
          /\ Stored(r) # {} => (req[r].commitOk /\ Stored(r) = RowsOf(r))
          /\ req[r].status = 200 => Stored(r) = RowsOf(r)
          /\ req[r].status = 500 => Stored(r) = {}

\* A request runs its transaction, all rows inserted, on the client on which
\* an earlier request failed after inserting a row.
C4_Witness ==
    \E r1 \in Reqs, r2 \in Reqs :
        /\ r1 # r2
        /\ Answered(r1) /\ req[r1].status = 500 /\ req[r1].inserts = 2
        /\ conn[req[r1].client].holder = r2
        /\ req[r2].pc = "commit"
        /\ conn[req[r1].client].pending = RowsOf(r2)
        /\ Len(req[r2].logs.items) = 2

\* C5: a request whose logs is missing, not an array or an empty array is
\* answered 400 without acquiring a client and without issuing BEGIN, INSERT,
\* COMMIT or ROLLBACK.
C5_RejectedBeforeDatastore ==
    \A r \in Reqs :
        (req[r].pc # "idle" /\ ~NonEmptyArray(req[r].logs)) =>
            /\ Answered(r) /\ req[r].status = 400 /\ req[r].sent = 1
            /\ req[r].acquired = 0 /\ req[r].client = 0
            /\ req[r].begins = 0 /\ req[r].inserts = 0
            /\ req[r].commits = 0 /\ req[r].rollbacks = 0
            /\ \A c \in Conns : conn[c].holder # r

\* An empty logs array was answered 400.
C5_Witness ==
    \E r \in Reqs :
        /\ Answered(r) /\ req[r].status = 400
        /\ req[r].logs.kind = "array" /\ Len(req[r].logs.items) = 0

\* C6 as claimed: a request whose non-empty logs array contains a null entry,
\* and none of whose datastore calls failed, is answered 400.
C6_MalformedEntryIs4xx ==
    \A r \in Reqs :
        (Answered(r) /\ Accepted(r) /\ HasNull(req[r].logs) /\ ~req[r].dbFail) =>
            req[r].status \in 400..499

----------------------------------------------------------------------------
(* Properties of the values bound by the insertions *)

\* The insertions issued so far: the one in flight for each request, the rows
\* pending on a client, and the committed rows.
Issued ==
    {Row(r, req[r].i) : r \in {q \in Reqs : req[q].pc = "insert"}}
    \cup UNION {conn[c].pending : c \in Conns}
    \cup debug_logs

\* C15 as claimed: the value bound to log_message by every insertion is a
\* text string, whatever the type of the entry; never undefined, null or
\* another non-string value.
C15_MessageIsText ==
    \A row \in Issued : row.log_message.t = "string"

\* C16 as claimed: the insertion issued for the i-th entry of a request
\* carries that request's sessionId and userId; its level is the entry's
\* level when the entry is an object that carries one, and null when the
\* entry is a text string or an object without a level; its message is the
\* text itself, or the object's text message.
C16_LevelOfEntry ==
    \A r \in Reqs :
        req[r].pc = "insert" =>
            LET e == req[r].logs.items[req[r].i]
                row == Row(r, req[r].i)
            IN /\ row.session_id = r /\ row.user_id = r /\ row.index = req[r].i
               /\ e.t = "string" => (row.log_level = Null /\ row.log_message = Str(e.v))
               /\ e.t = "object" =>
                     /\ row.log_level = IF e.level.t = "undefined" THEN Null ELSE e.level
                     /\ e.message.t = "string" => row.log_message = e.message

----------------------------------------------------------------------------
(* Properties of the Catalog Query Builder *)

GetAnswered == gpc = "done"

TableRows == {Lawnmowers[k] : k \in DOMAIN Lawnmowers}

RowSet(rows) == {rows[k] : k \in DOMAIN rows}

\* t occurs in s as a run of consecutive characters.
Contains(s, t) ==
    \E i \in 1..(Len(s) - Len(t) + 1) : SubSeq(s, i, i + Len(t) - 1) = t

\* A parameter value the handler is to reject: a numeric parameter without a
\* number, a rear-roller flag other than the two literals, a sort key that is
\* neither price nor name in any letter case.
Malformed(q) ==
    \/ \E p \in {"cuttingWidthCm", "minPrice", "maxPrice"} :
          Truthy(q[p]) /\ IsNaN(ParseFloat(q[p]))
    \/ Truthy(q.hasRearRoller) /\ q.hasRearRoller \notin {sTrue, sFalse}
    \/ Truthy(q.sortBy) /\ ToLowerCase(q.sortBy) \notin {sPrice, sName}

\* The keywords predicate of the spec: every white-space separated token,
\* lower-cased, occurs in one of the four text columns, name and description
\* being read also with their spaces removed.
KeywordsHold(p, keywords) ==
    \A k \in DOMAIN Tokens(keywords) :
        LET token == Tokens(keywords)[k]
        IN \/ \E f \in {"name", "description", "ideal_for", "best_feature"} :
                 Contains(ToLowerCase(p[f]), token)
           \/ \E f \in {"name", "description"} :
                 Contains(ToLowerCase(StripSpaces(p[f])), token)

\* Every supplied predicate holds of product p.
SatisfiesAll(p, q) ==
    /\ KeywordsHold(p, q.keywords)
    /\ Truthy(q.category) => ToLowerCase(p.category) = ToLowerCase(q.category)
    /\ Truthy(q.brand) => ToLowerCase(p.brand) = ToLowerCase(q.brand)
    /\ Truthy(q.powerSource) => ToLowerCase(p.power_source) = ToLowerCase(q.powerSource)
    /\ Truthy(q.driveType) => ToLowerCase(p.drive_type) = ToLowerCase(q.driveType)
    /\ Truthy(q.cuttingWidthCm) => p.cutting_width_cm = ParseFloat(q.cuttingWidthCm).val
    /\ Truthy(q.hasRearRoller) => ToLowerCase(p.has_rear_roller) = q.hasRearRoller
    /\ Truthy(q.minPrice) => p.price >= ParseFloat(q.minPrice).val
    /\ Truthy(q.maxPrice) => p.price <= ParseFloat(q.maxPrice).val

HasId(pid) == {p \in TableRows : p.id = pid}

\* C7 as claimed: a request with a non-empty productId is answered 200 with
\* exactly the one product of that id when it exists and 404 "Product not
\* found" when it does not, whatever the other parameters.
C7_LookupIs200Or404 ==
    (GetAnswered /\ Truthy(query.productId)) =>
        IF HasId(query.productId) # {}
        THEN res.status = 200 /\ Len(res.rows) = 1
             /\ res.rows[1] \in HasId(query.productId)
        ELSE res.status = 404 /\ res.error = "Product not found"

\* C7 amended: a request with a non-empty productId executes one lookup and
\* ignores every other parameter: unless the lookup itself fails, which is
\* answered 500 "Database query failed", the answer is 200 with exactly the
\* one product of that id when it exists and 404 "Product not found" when it
\* does not; it is never 400 and never an array of zero or several records.
C7_LookupIgnoresFilters ==
    (GetAnswered /\ Truthy(query.productId)) =>
        /\ res.status \in {200, 404, 500} /\ res.sent = 1 /\ reads = 1
        /\ res.status = 500 <=> res.dbErr
        /\ res.dbErr => res.error = "Database query failed"
        /\ res.status = 200 => Len(res.rows) = 1
        /\ ~res.dbErr =>
              IF HasId(query.productId) # {}
              THEN res.status = 200 /\ Len(res.rows) = 1
                   /\ res.rows[1] \in HasId(query.productId)
              ELSE res.status = 404 /\ res.error = "Product not found"

\* The product of the given id was returned although the request also carried a
\* parameter that the list path rejects.
C7_Witness ==
    /\ GetAnswered /\ Truthy(query.productId) /\ Malformed(query)
    /\ res.status = 200 /\ Len(res.rows) = 1 /\ res.rows[1].id = query.productId

\* C8: a request without productId that carries a malformed cuttingWidthCm,
\* minPrice, maxPrice, hasRearRoller or sortBy is answered 400 and no statement
\* is handed to the catalog store; no request is both answered 400 and has
\* executed a statement, whichever valid filters precede the malformed one.
C8_RejectBeforeQuery ==
    /\ res.status = 400 => (reads = 0 /\ stmt = BaseStmt /\ gpc = "done")
    /\ (gpc \in {"get", "all", "done"} /\ ~Truthy(query.productId) /\ Malformed(query)) =>
          (gpc = "done" /\ res.status = 400 /\ res.sent = 1 /\ reads = 0)

\* A request with a valid category filter and an unrecognized sort key was
\* answered 400 with no statement executed.
C8_Witness ==
    /\ GetAnswered /\ res.status = 400 /\ reads = 0
    /\ Truthy(query.category) /\ query.sortBy = <<"x">>

\* C9 as claimed: a request without productId whose parameters pass validation
\* is answered, unless the store fails, 200 with exactly the catalog products
\* that satisfy every supplied predicate, each once.
C9_ExactlyTheMatchingProducts ==
    (GetAnswered /\ ~Truthy(query.productId) /\ ~Malformed(query)) =>
        /\ res.status = 200 \/ res.dbErr
        /\ res.status = 200 =>
              /\ RowSet(res.rows) = {p \in TableRows : SatisfiesAll(p, query)}
              /\ Len(res.rows) = Cardinality(RowSet(res.rows))

\* C10 as claimed: every product returned for a keywords value contains every
\* token of it in at least one of the four text columns.
C10_ReturnedContainEveryToken ==
    (GetAnswered /\ ~Truthy(query.productId) /\ res.status = 200) =>
        \A k \in DOMAIN res.rows : KeywordsHold(res.rows[k], query.keywords)

NumericParams == {"cuttingWidthCm", "minPrice", "maxPrice"}

\* The text is a number: an optional sign and one or more digits, nothing else.
IsNumber(s) ==
    LET u == IF s # <<>> /\ Head(s) \in {"-", "+"} THEN Tail(s) ELSE s
    IN u # <<>> /\ \A k \in DOMAIN u : IsDigit(u[k])

NumberValue(s) ==
    IF Head(s) = "-" THEN 0 - DigitsValue(Tail(s), 0)
    ELSE IF Head(s) = "+" THEN DigitsValue(Tail(s), 0)
    ELSE DigitsValue(s, 0)

\* The comparisons of the executed statement on column col with operator op,
\* each with the value bound to its placeholder.
FiltersOn(op, col) ==
    {[at |-> k, value |-> stmt.params[1 + HolesOf(SubSeq(stmt.sql, 1, k - 1))]] :
        k \in {j \in DOMAIN stmt.sql : stmt.sql[j].op = op /\ stmt.sql[j].col = col}}

FilterOf(p) ==
    CASE p = "cuttingWidthCm" -> FiltersOn("NUMEQ", "cutting_width_cm")
      [] p = "minPrice" -> FiltersOn("GE", "price")
      [] p = "maxPrice" -> FiltersOn("LE", "price")

\* C11 as claimed: in a request without productId, a non-empty cuttingWidthCm,
\* minPrice or maxPrice that is not a number is answered 400; in a request
\* that is not answered 400 each of the three that is a number adds exactly
\* one comparison bound to that number, and each that is empty adds none.
C11_NumbersOnly ==
    (gpc # "start" /\ ~Truthy(query.productId)) =>
        \A p \in NumericParams :
            /\ (Truthy(query[p]) /\ ~IsNumber(query[p])) =>
                  (gpc = "done" /\ res.status = 400)
            /\ (res.status # 400 /\ IsNumber(query[p])) =>
                  /\ Cardinality(FilterOf(p)) = 1
                  /\ \A f \in FilterOf(p) : f.value = Num(NumberValue(query[p]))
            /\ (res.status # 400 /\ ~Truthy(query[p])) => FilterOf(p) = {}

\* a and b are the same text up to the case of their letters.
SameIgnoringCase(a, b) ==
    Len(a) = Len(b) /\ \A k \in DOMAIN a : LowerChar(a[k]) = LowerChar(b[k])

\* Every parameter other than sortBy passes validation.
OtherwiseValid(q) == ~Malformed([q EXCEPT !.sortBy = <<>>])

\* C13 as claimed: with otherwise valid parameters a non-empty sortBy is
\* accepted only when it is exactly price or name; every other value, case
\* variants included, is answered 400.
C13_SortKeyExact ==
    (gpc # "start" /\ ~Truthy(query.productId) /\ Truthy(query.sortBy)
       /\ OtherwiseValid(query)) =>
        IF query.sortBy \in {sPrice, sName}
        THEN res.status # 400 /\ gpc \in {"all", "done"}
        ELSE res.status = 400 /\ gpc = "done"

\* C13 amended: with otherwise valid parameters a non-empty sortBy is accepted
\* exactly when it reads price or name without regard to letter case, and the
\* statement is then ordered by that column; every other value is answered
\* 400 "Invalid sortBy parameter" with no statement executed.
C13_SortKeyIgnoringCase ==
    (gpc # "start" /\ ~Truthy(query.productId) /\ Truthy(query.sortBy)
       /\ OtherwiseValid(query)) =>
        IF SameIgnoringCase(query.sortBy, sPrice)
        THEN res.status # 400 /\ gpc \in {"all", "done"} /\ stmt.orderBy = "price"
        ELSE IF SameIgnoringCase(query.sortBy, sName)
        THEN res.status # 400 /\ gpc \in {"all", "done"} /\ stmt.orderBy = "name"
        ELSE /\ gpc = "done" /\ res.status = 400 /\ reads = 0
             /\ res.error = "Invalid sortBy parameter"

\* sortBy=Price was accepted and the whole catalog returned ordered by price.
C13_Witness ==
    /\ GetAnswered /\ query.sortBy = <<"P", "r", "i", "c", "e">>
    /\ res.status = 200 /\ Len(res.rows) = 3 /\ stmt.orderBy = "price"
    /\ \A i \in 1..2 : res.rows[i].price <= res.rows[i + 1].price

\* a is not after b in the order of the sort key.
KeyLeq(a, b, sortBy) ==
    IF SameIgnoringCase(sortBy, sPrice) THEN a.price <= b.price
    ELSE StrLeq(a.name, b.name)

NonDecreasing(rows, sortBy) ==
    \A i \in 1..(Len(rows) - 1) : KeyLeq(rows[i], rows[i + 1], sortBy)

NonIncreasing(rows, sortBy) ==
    \A i \in 1..(Len(rows) - 1) : KeyLeq(rows[i + 1], rows[i], sortBy)

HasRollerText(p) == SameIgnoringCase(p.has_rear_roller, sTrue)
LacksRollerText(p) == SameIgnoringCase(p.has_rear_roller, sFalse)
HasRollerInteger(p) == p.hasRearRoller = 1
LacksRollerInteger(p) == p.hasRearRoller = 0

\* The rear-roller contract of one handler run: others is the statement the
\* same revision builds for the request without hasRearRoller.
RollerContract(pc, st, rs, others, Has(_), Lacks(_)) ==
    (pc = "done" /\ ~Truthy(query.productId)) =>
        CASE query.hasRearRoller = sTrue ->
                rs.status = 200 =>
                    RowSet(rs.rows) = {p \in RowSet(Select(others, Lawnmowers)) : Has(p)}
          [] query.hasRearRoller = sFalse ->
                rs.status = 200 =>
                    RowSet(rs.rows) = {p \in RowSet(Select(others, Lawnmowers)) : Lacks(p)}
          [] Truthy(query.hasRearRoller) /\ query.hasRearRoller \notin {sTrue, sFalse} ->
                rs.status = 400
          [] OTHER ->
                rs.status # 400 =>
                    \A k \in DOMAIN st.sql : st.sql[k].op \notin {"ROLLER", "FLAG"}

\* C12: without productId, hasRearRoller=true returns exactly the products
\* with a rear roller among those the other filters select, hasRearRoller=false
\* exactly those without, any other non-empty value is answered 400, and an
\* empty value adds no rear-roller comparison; in the revisions written for
\* the text flag ("true"/"false" in any letter case) and in the revision
\* written for the integer flag (1 / 0).
C12_RearRollerLiteral ==
    /\ RollerContract(gpc, stmt, res,
                      BuildList([query EXCEPT !.hasRearRoller = <<>>]),
                      HasRollerText, LacksRollerText)
    /\ RollerContract(revs.grouped.gpc, revs.grouped.stmt, revs.grouped.res,
                      BuildListGrouped([query EXCEPT !.hasRearRoller = <<>>]),
                      HasRollerText, LacksRollerText)
    /\ RollerContract(revs.integer.gpc, revs.integer.stmt, revs.integer.res,
                      BuildListInteger([query EXCEPT !.hasRearRoller = <<>>]),
                      HasRollerInteger, LacksRollerInteger)

\* On the integer-flag schema hasRearRoller=false returned the one product
\* whose flag is 0.
C12_Witness ==
    /\ revs.integer.gpc = "done" /\ query.hasRearRoller = sFalse
    /\ revs.integer.res.status = 200 /\ revs.integer.res.rows = <<Q2>>

\* The comparisons of a statement that carry a placeholder, in textual order.
RECURSIVE Placeholders(_)
Placeholders(nodes) ==
    IF nodes = <<>> THEN <<>>
    ELSE LET n == Head(nodes)
         IN (IF n.op \in {"AND", "OR"} THEN Placeholders(n.kids)
             ELSE IF n.op \in {"ROLLER", "FLAG"} THEN <<>> ELSE <<n>>)
            \o Placeholders(Tail(nodes))

\* Every comparison of a statement, in textual order.
RECURSIVE Comparisons(_)
Comparisons(nodes) ==
    IF nodes = <<>> THEN <<>>
    ELSE LET n == Head(nodes)
         IN (IF n.op \in {"AND", "OR"} THEN Comparisons(n.kids) ELSE <<n>>)
            \o Comparisons(Tail(nodes))

TextFields == <<"name", "description", "ideal_for", "best_feature">>

\* The (column, value) pairs the keyword search is to bind for tokens t: per
\* token the four fields, or per field the tokens.
KeywordBindings(t, perToken) ==
    LET n == Len(t)
    IN [j \in 1..(4 * n) |->
          IF perToken
          THEN [col |-> TextFields[((j - 1) % 4) + 1],
                value |-> Text(<<"%">> \o t[((j - 1) \div 4) + 1] \o <<"%">>)]
          ELSE [col |-> TextFields[((j - 1) \div n) + 1],
                value |-> Text(<<"%">> \o t[((j - 1) % n) + 1] \o <<"%">>)]]

TextBinding(col, v) == IF Truthy(v) THEN <<[col |-> col, value |-> Text(v)]>> ELSE <<>>

NumBinding(col, v) ==
    IF Truthy(v) THEN <<[col |-> col, value |-> Num(ParseFloat(v).val)]>> ELSE <<>>

\* The (column, value) pairs of the statement of request q, in textual order.
ExpectedBindings(q, perToken) ==
    IF Truthy(q.productId) THEN <<[col |-> "id", value |-> Text(q.productId)]>>
    ELSE KeywordBindings(Tokens(q.keywords), perToken)
         \o TextBinding("category", q.category) \o TextBinding("brand", q.brand)
         \o TextBinding("power_source", q.powerSource)
         \o TextBinding("drive_type", q.driveType)
         \o NumBinding("cutting_width_cm", q.cuttingWidthCm)
         \o NumBinding("price", q.minPrice) \o NumBinding("price", q.maxPrice)

\* Statement st of request q has as many placeholders as bound values, the
\* k-th placeholder is the one the k-th value is meant for, and its text holds
\* nothing of the request but fixed literals and column names.
WellBound(st, q, perToken) ==
    LET ph == Placeholders(st.sql)
    IN /\ HolesOf(st.sql) = Len(st.params)
       /\ Len(ph) = Len(st.params)
       /\ [k \in DOMAIN ph |-> [col |-> ph[k].col, value |-> st.params[k]]]
             = ExpectedBindings(q, perToken)
       /\ Cardinality({k \in DOMAIN ph : ph[k].op = "LIKE"})
             = IF Truthy(q.productId) THEN 0 ELSE 4 * Len(Tokens(q.keywords))
       /\ \A k \in DOMAIN Comparisons(st.sql) :
             LET c == Comparisons(st.sql)[k]
             IN IF c.op = "ROLLER" THEN c.lit \in {sTrue, sFalse} ELSE c.lit = <<>>
       /\ st.orderBy \in {"", "price", "name"}
       /\ st.dir \in {"", "ASC", "DESC"}

\* C18: whenever the latest revision (per-token grouping) or the earlier
\* revision (per-field grouping) has handed a statement to the catalog store,
\* the statement has exactly as many ? placeholders as bound values, the k-th
\* value is the one of the k-th placeholder in textual order, the keyword
\* search contributes four of each per token, the rear-roller clause none,
\* and no value of the request is part of the statement text.
C18_PlaceholdersMatchParams ==
    /\ (gpc \in {"get", "all", "done"} /\ reads = 1) => WellBound(stmt, query, TRUE)
    /\ (revs.grouped.gpc \in {"get", "all", "done"} /\ revs.grouped.reads = 1) =>
          WellBound(revs.grouped.stmt, query, FALSE)

\* Both revisions executed a statement for two keyword tokens and every
\* filter: fifteen values each, bound in different orders.
C18_Witness ==
    /\ gpc = "done" /\ revs.grouped.gpc = "done"
    /\ res.status = 200 /\ revs.grouped.res.status = 200
    /\ Len(Tokens(query.keywords)) = 2 /\ query.hasRearRoller = sTrue
    /\ Len(stmt.params) = 15 /\ Len(revs.grouped.stmt.params) = 15
    /\ stmt.params # revs.grouped.stmt.params

\* C19 as claimed: when the store serves both revisions alike, the earlier and
\* the latest revision answer a request with the same status; the products the
\* earlier revision returns are among those the latest returns; and without
\* keywords the two return the same products.
C19_EarlierWithinLatest ==
    (gpc = "done" /\ revs.grouped.gpc = "done" /\ res.dbErr = revs.grouped.res.dbErr) =>
        /\ res.status = revs.grouped.res.status
        /\ res.status = 200 => RowSet(revs.grouped.res.rows) \subseteq RowSet(res.rows)
        /\ (res.status = 200 /\ ~Truthy(query.keywords)) =>
              RowSet(revs.grouped.res.rows) = RowSet(res.rows)

----------------------------------------------------------------------------
(* Properties of both endpoints *)

\* The step that follows each await of the log handler.
Pending(r) == Connect(r) \/ Begin(r) \/ Insert(r) \/ Commit(r) \/ Rollback(r)

\* C17: every request is answered exactly once on every path.  A catalog
\* request has no response while its handler or its callback is due, which
\* then can always run, and exactly one when it is done: a 400, the 404, the
\* 500 or the 200.  A log request has no response while an await is
\* outstanding, whose continuation can always run, and exactly one when the
\* handler has ended: the 400, the 200, the 500 of the failed transaction or
\* the 500 of the outer handler; a failed COMMIT and a failed ROLLBACK end in
\* one 500 each.
C17_ExactlyOneResponse ==
    /\ res.sent = IF gpc = "done" THEN 1 ELSE 0
    /\ gpc = "done" => res.status \in {200, 400, 404, 500}
    /\ gpc \in {"start", "get", "all"} => ENABLED NextProducts
    /\ \A r \in Reqs :
          /\ req[r].sent = IF Answered(r) THEN 1 ELSE 0
          /\ req[r].pc \in {"connect", "begin", "insert", "commit", "rollback"} =>
                ENABLED Pending(r)
          /\ Answered(r) =>
                \/ req[r].status = 400 /\ req[r].body = "Invalid or empty logs array provided."
                \/ req[r].status = 200 /\ req[r].body = "Logs received and stored successfully."
                \/ req[r].status = 500 /\ req[r].body = "Failed to store logs in database."
                \/ req[r].status = 500 /\ req[r].body = "Database connection error for logging."
          /\ (Answered(r) /\ req[r].commits = 1 /\ ~req[r].commitOk) => req[r].status = 500
          /\ (Answered(r) /\ req[r].rollbacks = 1) => req[r].status = 500

\* COMMIT failed after both insertions succeeded, ROLLBACK then failed inside
\* the error handler, and the request got its one response from the outer
\* handler.
C17_Witness ==
    \E r \in Reqs :
        /\ Answered(r) /\ req[r].sent = 1 /\ req[r].status = 500
        /\ Len(req[r].logs.items) = 2 /\ req[r].inserts = 2
        /\ req[r].commits = 1 /\ ~req[r].commitOk /\ req[r].rollbacks = 1
        /\ req[r].body = "Database connection error for logging."

----------------------------------------------------------------------------
Init == InitLog /\ GetIdle

Next == NextLog

Spec == Init /\ [][Next]_vars

SpecProducts == InitProducts /\ [][NextProducts]_vars

SpecRevisions == InitRevisions /\ [][NextRevisions]_vars

SpecTypedLog == Init /\ [][NextTypedLog]_vars

SpecService == InitService /\ [][NextService]_vars

====
